---- MODULE Spec2Model ----
(***************************************************************************)
(* Model of t-triste-lib/src/piece/piece_set_generator.rs: the shape       *)
(* catalog (PieceType), PlacedPiece, BoardState and the backtracking       *)
(* search generate_piece_set / backtrack, together with the callers the    *)
(* repository has for them (the functions of its tests module); and of the *)
(* game built by GamePlugin (lib.rs, piece/mod.rs): GameState, the Board   *)
(* and the systems of the Update schedule that drag and drop a piece.      *)
(***************************************************************************)
EXTENDS Integers, Sequences, FiniteSets, TLC

VARIABLES
    rows,       \* generate_piece_set: argument rows of the call in flight
    cols,       \* generate_piece_set: argument cols of the call in flight
    rep,        \* which repetition of the call with these arguments this is
    board,      \* generate_piece_set: let mut board (a BoardState)
    pieces,     \* generate_piece_set: let mut pieces (Vec<PlacedPiece>)
    piece_types,\* generate_piece_set: let piece_types, passed to backtrack
    stack,      \* the activation records of backtrack, outermost first
    pc,         \* position of the control flow
    ret,        \* the bool returned by the backtrack call that ended last
    result,     \* what generate_piece_set returned: "Some", "None" or "Pending"
    steps,      \* history: the place/remove steps of the call in flight
    runs,       \* history: the finished calls made with the current arguments
    outcomes,   \* history: arguments and Option variant of every finished call
    tboard,     \* the BoardState a test owns (let mut board in the tests)
    ri,         \* index of the next piece the test replays onto tboard
    last,       \* history: the last BoardState method a test called on tboard
    ncalls,     \* how many BoardState methods the test has called on tboard
    approved,   \* history: can_place_piece held before each place_piece on tboard
    game_state, \* GameState: the Vec of pieces (positions and moving flag)
    mouse_button_input, \* ButtonInput<MouseButton> as the frame's systems see it
    cursor,     \* Cursor: current_pos and is_pressed
    pending,    \* the systems of the Update schedule that have not run this frame
    frame       \* history: the frame number, GameState when the frame began,
                \* the pieces snap() was called on during the frame

searchVars == <<rows, cols, rep, board, pieces, piece_types, stack, pc, ret,
                result, steps, runs, outcomes>>
testVars == <<tboard, ri, last, ncalls, approved>>
gameVars == <<game_state, mouse_button_input, cursor, pending, frame>>
vars == <<rows, cols, rep, board, pieces, piece_types, stack, pc, ret, result,
         steps, runs, outcomes, tboard, ri, last, ncalls, approved,
         game_state, mouse_button_input, cursor, pending, frame>>

----------------------------------------------------------------------------
(* Bounds of the model *)

\* the largest rows argument passed to generate_piece_set / BoardState::new
MaxRows == 3
\* the largest cols argument passed to generate_piece_set / BoardState::new
MaxCols == 3
\* how many times generate_piece_set is called with the same arguments
Repeats == 2
\* how many BoardState methods a test calls on the board it built
MaxOps == 2

\* deepest recursion of backtrack the model follows: one activation per cell
\* of the largest board, and the one that finds the board complete
MaxDepth == (MaxRows * MaxCols) + 1

\* HashSet::new() draws the keys of its hasher (RandomState) when it is
\* built; they decide the set's iteration order and nothing else
Hashers == {0, 1}

Range(s) == {s[i] : i \in DOMAIN s}

\* no App has been built: there is no GameState and no frame runs
NoGame ==
    /\ game_state = <<>>
    /\ mouse_button_input = [pressed |-> FALSE, just_pressed |-> FALSE,
                             just_released |-> FALSE]
    /\ cursor = [current_pos |-> <<0, 0>>, is_pressed |-> FALSE]
    /\ pending = {}
    /\ frame = [n |-> 0, before |-> <<>>, snapped |-> {}]

----------------------------------------------------------------------------
(* PieceType *)

\* all_types with Rectangle listed before Square
all_types_rectangle_first == <<"Rectangle", "Square", "L", "Z", "Corner">>

all_types == <<"Square", "Rectangle", "L", "Z", "Corner">>

\* shape_offsets with the third offset of Z repeated in place of the fourth
shape_offsets_z_repeated(piece_type) ==
    CASE piece_type = "Square"    -> << <<0, 0>> >>
      [] piece_type = "Rectangle" -> << <<0, 0>>, <<1, 0>>, <<2, 0>> >>
      [] piece_type = "L"         -> << <<0, 0>>, <<1, 0>>, <<2, 0>>, <<2, 1>> >>
      [] piece_type = "Z"         -> << <<0, 0>>, <<0, 1>>, <<1, 1>>, <<1, 1>> >>
      [] piece_type = "Corner"    -> << <<0, 0>>, <<1, 0>>, <<1, 1>> >>

shape_offsets(piece_type) ==
    CASE piece_type = "Square"    -> << <<0, 0>> >>
      [] piece_type = "Rectangle" -> << <<0, 0>>, <<1, 0>>, <<2, 0>> >>
      [] piece_type = "L"         -> << <<0, 0>>, <<1, 0>>, <<2, 0>>, <<2, 1>> >>
      [] piece_type = "Z"         -> << <<0, 0>>, <<0, 1>>, <<1, 1>>, <<1, 2>> >>
      [] piece_type = "Corner"    -> << <<0, 0>>, <<1, 0>>, <<1, 1>> >>

size(piece_type) == Len(shape_offsets(piece_type))

----------------------------------------------------------------------------
(* PlacedPiece *)

PlacedPiece(piece_type, grid_row, grid_col) ==
    [piece_type |-> piece_type, grid_row |-> grid_row, grid_col |-> grid_col]

\* occupied_positions that adds the row offset to the column and the column
\* offset to the row
occupied_positions_exchanged(piece) ==
    [i \in 1..Len(shape_offsets(piece.piece_type)) |->
        <<piece.grid_row + shape_offsets(piece.piece_type)[i][2],
          piece.grid_col + shape_offsets(piece.piece_type)[i][1]>>]

occupied_positions(piece) ==
    [i \in 1..Len(shape_offsets(piece.piece_type)) |->
        <<piece.grid_row + shape_offsets(piece.piece_type)[i][1],
          piece.grid_col + shape_offsets(piece.piece_type)[i][2]>>]

\* Width of each square in the puzzle pieces, measured in pixels
SQUARE_WIDTH == 50

\* to_pixel_position that lets the row drive x and the column drive y
to_pixel_position_transposed(piece, board_start_x, board_start_y) ==
    <<board_start_x + (piece.grid_row * SQUARE_WIDTH),
      board_start_y + (piece.grid_col * SQUARE_WIDTH)>>

\* to_pixel_position that returns the pixel of the last occupied position
to_pixel_position_last_cell(piece, board_start_x, board_start_y) ==
    LET positions == occupied_positions(piece)
    IN <<board_start_x + (positions[Len(positions)][2] * SQUARE_WIDTH),
         board_start_y + (positions[Len(positions)][1] * SQUARE_WIDTH)>>

\* (pixel_x, pixel_y); the values of the model are far from the ends of i32
to_pixel_position(piece, board_start_x, board_start_y) ==
    LET pixel_x == board_start_x + (piece.grid_col * SQUARE_WIDTH)
        pixel_y == board_start_y + (piece.grid_row * SQUARE_WIDTH)
    IN <<pixel_x, pixel_y>>

----------------------------------------------------------------------------
(* The pieces of the game: the positions (x, y, z) of their squares *)

\* PieceBuilder::new_horizontal_rectangle: length squares in a row from
\* (start_x, start_y), SQUARE_WIDTH apart on x
new_horizontal_rectangle(start_x, start_y, length, z_index) ==
    [i \in 1..length |->
        <<start_x + ((i - 1) * SQUARE_WIDTH), start_y, z_index>>]

\* Rectangle::new: for i in 0..3, one square at (start_x, start_y + i * 50)
Rectangle_new(start_x, start_y) ==
    new_horizontal_rectangle(start_x, start_y + (0 * SQUARE_WIDTH), 1, 1)
    \o new_horizontal_rectangle(start_x, start_y + (1 * SQUARE_WIDTH), 1, 1)
    \o new_horizontal_rectangle(start_x, start_y + (2 * SQUARE_WIDTH), 1, 1)

\* L::new, as test_build_l_piece asserts its positions for L::new(0, 0),
\* moved to (start_x, start_y)
L_new(start_x, start_y) ==
    << <<start_x, start_y, 1>>,
       <<start_x + SQUARE_WIDTH, start_y, 1>>,
       <<start_x, start_y + SQUARE_WIDTH, 1>>,
       <<start_x, start_y + (2 * SQUARE_WIDTH), 1>> >>

\* Z::new, as test_build_z_piece asserts its positions for Z::new(0, 0)
Z_new(start_x, start_y) ==
    << <<start_x, start_y, 1>>,
       <<start_x + SQUARE_WIDTH, start_y, 1>>,
       <<start_x + SQUARE_WIDTH, start_y + SQUARE_WIDTH, 1>>,
       <<start_x + (2 * SQUARE_WIDTH), start_y + SQUARE_WIDTH, 1>> >>

\* Corner::new, as test_build_corner_piece asserts its positions for
\* Corner::new(0, 0)
Corner_new(start_x, start_y) ==
    << <<start_x, start_y, 1>>,
       <<start_x + SQUARE_WIDTH, start_y, 1>>,
       <<start_x, start_y + SQUARE_WIDTH, 1>> >>

\* Square::new, as test_build_dot_square_piece asserts its positions for
\* Square::new(0, 0)
Square_new(start_x, start_y) == << <<start_x, start_y, 1>> >>

\* PieceType::instantiate: the positions of the piece it builds
PieceType_instantiate(piece_type, pixel_x, pixel_y) ==
    CASE piece_type = "Square"    -> Square_new(pixel_x, pixel_y)
      [] piece_type = "Rectangle" -> Rectangle_new(pixel_x, pixel_y)
      [] piece_type = "L"         -> L_new(pixel_x, pixel_y)
      [] piece_type = "Z"         -> Z_new(pixel_x, pixel_y)
      [] piece_type = "Corner"    -> Corner_new(pixel_x, pixel_y)

\* PlacedPiece::instantiate
PlacedPiece_instantiate(piece, board_start_x, board_start_y) ==
    LET pixel == to_pixel_position(piece, board_start_x, board_start_y)
    IN PieceType_instantiate(piece.piece_type, pixel[1], pixel[2])

----------------------------------------------------------------------------
(* BoardState *)

\* BoardState::new with its two arguments taken for one another
BoardState_new_transposed(r, c, h) ==
    [rows |-> c, cols |-> r, filled |-> {}, hasher |-> h]

BoardState_new(r, c, h) == [rows |-> r, cols |-> c, filled |-> {}, hasher |-> h]

\* is_within_bounds with row 0 left out (row > 0 for row >= 0)
is_within_bounds_strict(b, row, col) ==
    row > 0 /\ row < b.rows /\ col >= 0 /\ col < b.cols

\* is_within_bounds with the column one past the last let in (<= for <)
is_within_bounds_inclusive(b, row, col) ==
    row >= 0 /\ row < b.rows /\ col >= 0 /\ col <= b.cols

is_within_bounds(b, row, col) ==
    row >= 0 /\ row < b.rows /\ col >= 0 /\ col < b.cols

\* is_filled with its answer negated
is_filled_negated(b, row, col) == <<row, col>> \notin b.filled

is_filled(b, row, col) == <<row, col>> \in b.filled

\* the loop of can_place_piece over a vector of positions: the first position
\* out of bounds or filled ends it with false
RECURSIVE can_place_positions(_, _)
can_place_positions(b, positions) ==
    IF positions = <<>> THEN TRUE
    ELSE IF ~is_within_bounds(b, Head(positions)[1], Head(positions)[2]) THEN FALSE
    ELSE IF is_filled(b, Head(positions)[1], Head(positions)[2]) THEN FALSE
    ELSE can_place_positions(b, Tail(positions))

can_place_piece(b, piece) == can_place_positions(b, occupied_positions(piece))

RECURSIVE insert_all(_, _)
insert_all(filled, positions) ==
    IF positions = <<>> THEN filled
    ELSE insert_all(filled \cup {Head(positions)}, Tail(positions))

\* place_piece that inserts nothing
place_piece_nothing(b, piece) == b

place_piece(b, piece) ==
    [b EXCEPT !.filled = insert_all(@, occupied_positions(piece))]

RECURSIVE remove_all(_, _)
remove_all(filled, positions) ==
    IF positions = <<>> THEN filled
    ELSE remove_all(filled \ {Head(positions)}, Tail(positions))

\* remove_piece that removes the first position of the piece alone
remove_piece_first_only(b, piece) ==
    [b EXCEPT !.filled = @ \ {occupied_positions(piece)[1]}]

remove_piece(b, piece) ==
    [b EXCEPT !.filled = remove_all(@, occupied_positions(piece))]

\* is_complete that compares with rows + cols for rows * cols
is_complete_sum(b) == Cardinality(b.filled) = b.rows + b.cols

\* is_complete that is content with one cell left empty
is_complete_one_short(b) == Cardinality(b.filled) >= (b.rows * b.cols) - 1

is_complete(b) == Cardinality(b.filled) = b.rows * b.cols

\* a - b on usize: the difference when it is not negative; when it is, the
\* subtraction overflows, which is a panic in a build with overflow checks
\* and the value 2^64 - below in a build without them
usize_sub(a, b) ==
    IF a >= b THEN [kind |-> "value", n |-> a - b]
    ELSE [kind |-> "overflow", below |-> b - a]

\* empty_count with the operands of its subtraction exchanged
empty_count_exchanged(b) == usize_sub(Cardinality(b.filled), b.rows * b.cols)

empty_count(b) == usize_sub(b.rows * b.cols, Cardinality(b.filled))

\* row-major order of two positions
RowMajorLess(p, q) == p[1] < q[1] \/ (p[1] = q[1] /\ p[2] < q[2])

\* first_empty_position that takes the first empty position in the iteration
\* order of a hash set, which the keys of the hasher decide
first_empty_position_hash_order(b) ==
    LET empty == {pos \in (0..(b.rows - 1)) \X (0..(b.cols - 1)) :
                     <<pos[1], pos[2]>> \notin b.filled}
    IN IF empty = {} THEN <<"None">>
       ELSE IF b.hasher = 0
       THEN <<"Some", CHOOSE pos \in empty :
                         \A other \in empty \ {pos} : RowMajorLess(pos, other)>>
       ELSE <<"Some", CHOOSE pos \in empty :
                         \A other \in empty \ {pos} : RowMajorLess(other, pos)>>

\* first_empty_position with its two loops nested the other way round
\* (for col in 0..cols { for row in 0..rows { .. } })
RECURSIVE scan_column_major(_, _, _)
scan_column_major(b, row, col) ==
    IF col >= b.cols THEN <<"None">>
    ELSE IF row >= b.rows THEN scan_column_major(b, 0, col + 1)
    ELSE IF ~is_filled(b, row, col) THEN <<"Some", <<row, col>>>>
    ELSE scan_column_major(b, row + 1, col)

first_empty_position_column_major(b) == scan_column_major(b, 0, 0)

\* the nested loops of first_empty_position, standing at (row, col): for row
\* in 0..rows, for col in 0..cols, return Some at the first position that is
\* not filled; <<"None">> when the loops end
RECURSIVE first_empty_from(_, _, _)
first_empty_from(b, row, col) ==
    IF row >= b.rows THEN <<"None">>
    ELSE IF col >= b.cols THEN first_empty_from(b, row + 1, 0)
    ELSE IF ~is_filled(b, row, col) THEN <<"Some", <<row, col>>>>
    ELSE first_empty_from(b, row, col + 1)

first_empty_position(b) == first_empty_from(b, 0, 0)

----------------------------------------------------------------------------
(* backtrack: the activation records and the loop over piece types and offsets *)

\* the placement the loop body builds for one offset of one piece type
Candidate(piece_type, start_row, start_col, offset) ==
    PlacedPiece(piece_type, start_row - offset[1], start_col - offset[2])

\* an activation of backtrack past its base case: the first empty position
\* it found, and where its two nested loops stand (1-based indices into
\* piece_types and into the offsets of that type); entered is the number of
\* filled cells of the board when the activation began, filled_in and
\* pieces_in are the filled set and the vector at that time, and steps_in is
\* the number of place and remove steps taken before it
Frame(pos, b, v, s) ==
    [start_row |-> pos[1], start_col |-> pos[2], ti |-> 1, oi |-> 1,
     entered |-> Cardinality(b.filled),
     filled_in |-> b.filled, pieces_in |-> v, steps_in |-> Len(s)]

\* the local variable piece of the loop body of activation f
frame_piece(f) ==
    Candidate(piece_types[f.ti], f.start_row, f.start_col,
              shape_offsets(piece_types[f.ti])[f.oi])

\* the next iteration of the nested for loops
next_iteration(f) ==
    IF f.oi < Len(shape_offsets(piece_types[f.ti]))
    THEN [f EXCEPT !.oi = f.oi + 1]
    ELSE [f EXCEPT !.ti = f.ti + 1, !.oi = 1]

\* push that appends the piece twice
push_twice(v, piece) == Append(Append(v, piece), piece)

\* pieces.push(piece.clone())
push(v, piece) == Append(v, piece)

\* pieces.pop()
pop(v) == SubSeq(v, 1, Len(v) - 1)

Top == stack[Len(stack)]

----------------------------------------------------------------------------
(* The arguments of the calls: every (rows, cols) up to the bounds in turn, *)
(* each Repeats times                                                       *)

LastCall == rows = MaxRows /\ cols = MaxCols /\ rep = Repeats

Init ==
    /\ rows = 0
    /\ cols = 0
    /\ rep = 1
    /\ board = BoardState_new(0, 0, 0)
    /\ pieces = <<>>
    /\ piece_types = all_types
    /\ stack = <<>>
    /\ pc = "call"
    /\ ret = FALSE
    /\ result = "Pending"
    /\ steps = <<>>
    /\ runs = <<>>
    /\ outcomes = <<>>
    /\ tboard = BoardState_new(0, 0, 0)
    /\ ri = 1
    /\ last = [op |-> "new"]
    /\ ncalls = 0
    /\ approved = TRUE
    /\ NoGame

\* generate_piece_set: the board, the vector and the first call of backtrack
Generate ==
    /\ pc = "call"
    /\ \E h \in Hashers : board' = BoardState_new(rows, cols, h)
    /\ pieces' = <<>>
    /\ piece_types' = all_types
    /\ stack' = <<>>
    /\ steps' = <<>>
    /\ result' = "Pending"
    /\ pc' = "enter"
    /\ UNCHANGED <<gameVars, rows, cols, rep, ret, runs, outcomes, testVars>>

\* backtrack, from its entry to the head of its loop
Enter ==
    /\ pc = "enter"
    /\ Len(stack) < MaxDepth
    /\ IF is_complete(board)
       THEN /\ ret' = TRUE
            /\ pc' = "return"
            /\ UNCHANGED stack
       ELSE IF first_empty_position(board)[1] = "None"
       THEN /\ ret' = FALSE
            /\ pc' = "return"
            /\ UNCHANGED stack
       ELSE /\ stack' = Append(stack, Frame(first_empty_position(board)[2],
                                            board, pieces, steps))
            /\ pc' = "loop"
            /\ UNCHANGED ret
    /\ UNCHANGED <<gameVars, rows, cols, rep, piece_types, board, pieces, result, steps,
                   runs, outcomes, testVars>>

\* one iteration of the nested loops of backtrack, up to the recursive call;
\* when the loops are over, the final return false
Try ==
    /\ pc = "loop"
    /\ IF Top.ti > Len(piece_types)
       THEN /\ stack' = pop(stack)
            /\ ret' = FALSE
            /\ pc' = "return"
            /\ UNCHANGED <<board, pieces, steps>>
       ELSE IF can_place_piece(board, frame_piece(Top))
       THEN /\ board' = place_piece(board, frame_piece(Top))
            /\ pieces' = push(pieces, frame_piece(Top))
            /\ steps' = Append(steps, <<"place", frame_piece(Top)>>)
            /\ pc' = "enter"
            /\ UNCHANGED <<stack, ret>>
       ELSE /\ stack' = [stack EXCEPT ![Len(stack)] = next_iteration(Top)]
            /\ UNCHANGED <<board, pieces, steps, pc, ret>>
    /\ UNCHANGED <<gameVars, rows, cols, rep, piece_types, result, runs, outcomes,
                   testVars>>

\* backtrack, after its recursive call returned: return true, or undo the
\* placement and go on with the loops
Return ==
    /\ pc = "return"
    /\ stack # <<>>
    /\ IF ret
       THEN /\ stack' = pop(stack)
            /\ UNCHANGED <<board, pieces, steps, pc, ret>>
       ELSE /\ board' = remove_piece(board, frame_piece(Top))
            /\ pieces' = pop(pieces)
            /\ steps' = Append(steps, <<"remove", frame_piece(Top)>>)
            /\ stack' = [stack EXCEPT ![Len(stack)] = next_iteration(Top)]
            /\ pc' = "loop"
            /\ UNCHANGED ret
    /\ UNCHANGED <<gameVars, rows, cols, rep, piece_types, result, runs, outcomes,
                   testVars>>

\* generate_piece_set, after backtrack returned: Some(pieces) or None
Finish ==
    /\ pc = "return"
    /\ stack = <<>>
    /\ result' = IF ret THEN "Some" ELSE "None"
    /\ pc' = "done"
    /\ runs' = Append(runs, [result |-> result', hasher |-> board.hasher,
                             pieces |-> IF ret THEN pieces ELSE <<>>,
                             steps |-> steps])
    /\ outcomes' = Append(outcomes, [rows |-> rows, cols |-> cols,
                                     result |-> result'])
    /\ UNCHANGED <<gameVars, rows, cols, rep, piece_types, board, pieces, stack, ret,
                   steps, testVars>>

----------------------------------------------------------------------------
(* The callers: the tests that call generate_piece_set and replay its result *)

\* .expect("Should find a solution") and let mut board = BoardState::new(..)
Expect ==
    /\ pc = "done"
    /\ IF result = "Some"
       THEN /\ \E h \in Hashers : tboard' = BoardState_new(rows, cols, h)
            /\ ri' = 1
            /\ pc' = "replay"
       ELSE /\ pc' = "expect_failed"
            /\ UNCHANGED <<tboard, ri>>
    /\ UNCHANGED <<gameVars, rows, cols, rep, piece_types, board, pieces, stack, ret,
                   result, steps, runs, outcomes, last, ncalls, approved>>

\* for piece in &pieces { assert!(board.can_place_piece(piece)); board.place_piece(piece) }
Replay ==
    /\ pc = "replay"
    /\ IF ri > Len(pieces)
       THEN /\ pc' = "replayed"
            /\ UNCHANGED <<tboard, ri>>
       ELSE IF can_place_piece(tboard, pieces[ri])
       THEN /\ tboard' = place_piece(tboard, pieces[ri])
            /\ ri' = ri + 1
            /\ UNCHANGED pc
       ELSE /\ pc' = "panicked"
            /\ UNCHANGED <<tboard, ri>>
    /\ UNCHANGED <<gameVars, rows, cols, rep, piece_types, board, pieces, stack, ret,
                   result, steps, runs, outcomes, last, ncalls, approved>>

\* the next call: the same arguments again, or the next board size
NextCall ==
    /\ pc \in {"replayed", "panicked", "expect_failed"}
    /\ IF LastCall
       THEN /\ pc' = "finished"
            /\ UNCHANGED <<rows, cols, rep, runs, result>>
       ELSE /\ pc' = "call"
            /\ result' = "Pending"
            /\ IF rep < Repeats
               THEN /\ rep' = rep + 1
                    /\ UNCHANGED <<rows, cols, runs>>
               ELSE /\ rep' = 1
                    /\ runs' = <<>>
                    /\ IF cols < MaxCols
                       THEN /\ cols' = cols + 1
                            /\ UNCHANGED rows
                       ELSE /\ cols' = 0
                            /\ rows' = rows + 1
    /\ UNCHANGED <<gameVars, board, pieces, piece_types, stack, ret, steps, outcomes,
                   tboard, ri, last, ncalls, approved>>

Next == Generate \/ Enter \/ Try \/ Return \/ Finish \/ Expect \/ Replay \/ NextCall

Spec == Init /\ [][Next]_vars

\* the search is one thread of control: a step that can be taken is taken
FairSpec == Spec /\ WF_vars(Next)

----------------------------------------------------------------------------
(* backtrack called on its own: a caller in the module builds an empty      *)
(* board and an empty vector and passes a slice of piece types of its choice *)

\* the piece types of all_types with an index in S, in the order of all_types
RECURSIVE Selection(_, _)
Selection(S, i) ==
    IF i > Len(all_types) THEN <<>>
    ELSE (IF i \in S THEN <<all_types[i]>> ELSE <<>>) \o Selection(S, i + 1)

\* the slices passed for piece_types: every selection of the catalog
Slices == {Selection(S, 1) : S \in SUBSET (1..Len(all_types))}

InitBacktrack ==
    /\ rows \in 1..MaxRows
    /\ cols \in 1..MaxCols
    /\ rep = 1
    /\ board = BoardState_new(rows, cols, 0)
    /\ pieces = <<>>
    /\ piece_types \in Slices
    /\ stack = <<>>
    /\ pc = "enter"
    /\ ret = FALSE
    /\ result = "Pending"
    /\ steps = <<>>
    /\ runs = <<>>
    /\ outcomes = <<>>
    /\ tboard = BoardState_new(0, 0, 0)
    /\ ri = 1
    /\ last = [op |-> "new"]
    /\ ncalls = 0
    /\ approved = TRUE
    /\ NoGame

NextBacktrack == Enter \/ Try \/ Return \/ Finish

SpecBacktrack == InitBacktrack /\ [][NextBacktrack]_vars

----------------------------------------------------------------------------
(* The callers of BoardState: a test builds a board, fills some of its      *)
(* cells and calls the methods of the board with placements of its choice   *)

\* the position a test aims its placements at: the first empty one, and
\* (0, 0) on a board without one
Target(b) ==
    LET first == first_empty_position(b)
    IN IF first[1] = "Some" THEN first[2] ELSE <<0, 0>>

\* the iterations of the nested loops of backtrack: an index into piece_types
\* and an index into the offsets of that type
Iterations ==
    UNION {{<<ti, oi>> : oi \in 1..Len(shape_offsets(all_types[ti]))} :
              ti \in 1..Len(all_types)}

\* the placements a test passes to the board: the ones the loops of backtrack
\* build for the target, i.e. every piece type with each of its cells in turn
\* on the target, in and out of bounds, on empty and on filled cells
Placements(b) ==
    LET target == Target(b)
    IN {Candidate(all_types[it[1]], target[1], target[2],
                  shape_offsets(all_types[it[1]])[it[2]]) : it \in Iterations}

\* a test has built its board; the methods it goes on to call (insert,
\* contains, remove and len of the set) do not iterate the set, so one value
\* of the hasher's keys stands for all
InitBoard ==
    /\ rows \in 1..MaxRows
    /\ cols \in 1..MaxCols
    /\ rep = 1
    /\ board = BoardState_new(0, 0, 0)
    /\ pieces = <<>>
    /\ piece_types = all_types
    /\ stack = <<>>
    /\ pc = "test"
    /\ ret = FALSE
    /\ result = "Pending"
    /\ steps = <<>>
    /\ runs = <<>>
    /\ outcomes = <<>>
    /\ tboard = BoardState_new(rows, cols, 0)
    /\ ri = 1
    /\ last = [op |-> "new"]
    /\ ncalls = 0
    /\ approved = TRUE
    /\ NoGame

\* board.filled.insert((row, col)): the tests fill cells one by one, in
\* row-major order, before they call the methods
TestInsert ==
    /\ pc = "test"
    /\ ncalls = 0
    /\ first_empty_position(tboard)[1] = "Some"
    /\ tboard' = [tboard EXCEPT !.filled = @ \cup {first_empty_position(tboard)[2]}]
    /\ last' = [op |-> "insert"]
    /\ UNCHANGED <<gameVars, searchVars, ri, ncalls, approved>>

\* board.place_piece(&piece)
TestPlace ==
    /\ pc = "test"
    /\ ncalls < MaxOps
    /\ \E piece \in Placements(tboard) :
          /\ tboard' = place_piece(tboard, piece)
          /\ last' = [op |-> "place", piece |-> piece,
                      ok |-> can_place_piece(tboard, piece),
                      before |-> tboard.filled]
    /\ ncalls' = ncalls + 1
    /\ approved' = (approved /\ last'.ok)
    /\ UNCHANGED <<gameVars, searchVars, ri>>

\* board.remove_piece(&piece), with the placement the test placed just before
TestRemove ==
    /\ pc = "test"
    /\ ncalls < MaxOps
    /\ last.op = "place"
    /\ tboard' = remove_piece(tboard, last.piece)
    /\ last' = [op |-> "remove", piece |-> last.piece, undoes |-> last.ok,
                before |-> last.before]
    /\ ncalls' = ncalls + 1
    /\ UNCHANGED <<gameVars, searchVars, ri, approved>>

\* board.can_place_piece(&piece)
TestCanPlace ==
    /\ pc = "test"
    /\ ncalls < MaxOps
    /\ \E piece \in Placements(tboard) :
          last' = [op |-> "can_place", piece |-> piece,
                   answer |-> can_place_piece(tboard, piece),
                   before |-> tboard.filled]
    /\ ncalls' = ncalls + 1
    /\ UNCHANGED <<gameVars, searchVars, tboard, ri, approved>>

\* board.is_complete(), board.empty_count(): the queries of the board, which
\* a test may call after any of the other methods
TestQuery ==
    /\ pc = "test"
    /\ last.op # "query"
    /\ last' = [op |-> "query", is_complete |-> is_complete(tboard),
                empty_count |-> empty_count(tboard)]
    /\ UNCHANGED <<gameVars, searchVars, tboard, ri, ncalls, approved>>

NextBoard == TestInsert \/ TestPlace \/ TestRemove \/ TestCanPlace \/ TestQuery

SpecBoard == InitBoard /\ [][NextBoard]_vars

----------------------------------------------------------------------------
(* The callers of PlacedPiece: a test builds a placement and calls its      *)
(* methods occupied_positions and to_pixel_position                         *)

\* the anchors of the placements: the rows and columns of the largest
\* board, and the two rows and columns before it that the loops of
\* backtrack reach when they shift a shape by one of its offsets
AnchorRows == (0 - 2)..(MaxRows - 1)
AnchorCols == (0 - 2)..(MaxCols - 1)

\* the values passed for (board_start_x, board_start_y): the ones of
\* test_to_pixel_position, the origin, and a start left of and below it
Origins == {<<300, 250>>, <<0, 0>>, <<0 - 25, 40>>}

InitPiece ==
    /\ rows = MaxRows
    /\ cols = MaxCols
    /\ rep = 1
    /\ board = BoardState_new(0, 0, 0)
    /\ pieces = <<>>
    /\ piece_types = all_types
    /\ stack = <<>>
    /\ pc = "piece"
    /\ ret = FALSE
    /\ result = "Pending"
    /\ steps = <<>>
    /\ runs = <<>>
    /\ outcomes = <<>>
    /\ tboard = BoardState_new(rows, cols, 0)
    /\ ri = 1
    /\ last = [op |-> "new"]
    /\ ncalls = 0
    /\ approved = TRUE
    /\ NoGame

\* piece.occupied_positions(): the method takes &self and no board
TestOccupied ==
    /\ pc = "piece"
    /\ \E piece_type \in Range(all_types), grid_row \in AnchorRows,
          grid_col \in AnchorCols :
          last' = [op |-> "occupied",
                   piece |-> PlacedPiece(piece_type, grid_row, grid_col),
                   positions |-> occupied_positions(
                                    PlacedPiece(piece_type, grid_row, grid_col)),
                   before |-> tboard.filled]
    /\ UNCHANGED <<gameVars, searchVars, tboard, ri, ncalls, approved>>

\* piece.to_pixel_position(board_start_x, board_start_y)
TestPixel ==
    /\ pc = "piece"
    /\ \E piece_type \in Range(all_types), grid_row \in AnchorRows,
          grid_col \in AnchorCols, start \in Origins :
          last' = [op |-> "pixel",
                   piece |-> PlacedPiece(piece_type, grid_row, grid_col),
                   board_start_x |-> start[1], board_start_y |-> start[2],
                   pixel |-> to_pixel_position(
                                PlacedPiece(piece_type, grid_row, grid_col),
                                start[1], start[2])]
    /\ UNCHANGED <<gameVars, searchVars, tboard, ri, ncalls, approved>>

\* piece.instantiate(board_start_x, board_start_y)
TestInstantiate ==
    /\ pc = "piece"
    /\ \E piece_type \in Range(all_types), grid_row \in AnchorRows,
          grid_col \in AnchorCols, start \in Origins :
          last' = [op |-> "instantiate",
                   piece |-> PlacedPiece(piece_type, grid_row, grid_col),
                   board_start_x |-> start[1], board_start_y |-> start[2],
                   positions |-> PlacedPiece_instantiate(
                                    PlacedPiece(piece_type, grid_row, grid_col),
                                    start[1], start[2])]
    /\ UNCHANGED <<gameVars, searchVars, tboard, ri, ncalls, approved>>

NextPiece == TestOccupied \/ TestPixel \/ TestInstantiate

SpecPiece == InitPiece /\ [][NextPiece]_vars

----------------------------------------------------------------------------
(* The game: GameState, the Board, the mouse and the systems of Update *)

\* how many frames of the App the model follows
MaxFrames == 3

\* a piece of GameState: its squares and its moving flag (Rectangle::new
\* builds it with moving: false)
NewPiece(positions) == [positions |-> positions, moving |-> FALSE]

\* PiecePlugin::build: the GameState it inserts
GameState_new ==
    << NewPiece(Rectangle_new(100, 100)),
       NewPiece(L_new(200, 300)),
       NewPiece(Z_new(400, 500)),
       NewPiece(Corner_new(100, 300)),
       NewPiece(Square_new(300, 100)) >>

\* Board::new: nb_rows = 3, nb_cols = 5; the bounds incrust_in_board reads
Board_new(start_x, start_y) ==
    [min_x |-> start_x,
     min_y |-> start_y,
     max_x |-> start_x + (5 * SQUARE_WIDTH),
     max_y |-> start_y + (3 * SQUARE_WIDTH)]

\* BoardPlugin::build: the Board it inserts
TheBoard == Board_new(300, 250)

\* Piece::is_even_odd: SQUARE_WIDTH / 2 is a division of i32
is_even_odd(piece, current_pos) ==
    \E i \in DOMAIN piece.positions :
        LET piece_pos == piece.positions[i]
        IN /\ piece_pos[1] - (SQUARE_WIDTH \div 2) <= current_pos[1]
           /\ current_pos[1] <= piece_pos[1] + (SQUARE_WIDTH \div 2)
           /\ piece_pos[2] - (SQUARE_WIDTH \div 2) <= current_pos[2]
           /\ current_pos[2] <= piece_pos[2] + (SQUARE_WIDTH \div 2)

\* Piece::set_moving
set_moving(piece, moving) == [piece EXCEPT !.moving = moving]

\* Piece::is_moving
is_moving(piece) == piece.moving

\* Piece::move_it, "Moves the piece to follow the cursor position": the
\* first square goes to the cursor and the others keep their place by it
move_it(piece, c) ==
    LET dx == c.current_pos[1] - piece.positions[1][1]
        dy == c.current_pos[2] - piece.positions[1][2]
    IN [piece EXCEPT !.positions =
            [i \in DOMAIN piece.positions |->
                <<piece.positions[i][1] + dx, piece.positions[i][2] + dy,
                  piece.positions[i][3]>>]]

\* the multiple of SQUARE_WIDTH nearest to a coordinate
nearest_line(v) == ((v + (SQUARE_WIDTH \div 2)) \div SQUARE_WIDTH) * SQUARE_WIDTH

\* Piece::snap, "Snaps the piece positions to align with the board grid"
snap(piece) ==
    [piece EXCEPT !.positions =
        [i \in DOMAIN piece.positions |->
            <<nearest_line(piece.positions[i][1]),
              nearest_line(piece.positions[i][2]), piece.positions[i][3]>>]]

\* release_piece
release_piece(gs, input) ==
    IF ~input.just_released THEN gs
    ELSE [i \in DOMAIN gs |->
            IF is_moving(gs[i]) THEN set_moving(gs[i], FALSE) ELSE gs[i]]

\* click_piece, the loop of the left button: the index of the piece whose
\* iteration returns, 0 when the loop ends without one
clicked_piece(gs, c) ==
    IF \E i \in DOMAIN gs : is_even_odd(gs[i], c.current_pos)
    THEN CHOOSE i \in DOMAIN gs :
            /\ is_even_odd(gs[i], c.current_pos)
            /\ \A j \in 1..(i - 1) : ~is_even_odd(gs[j], c.current_pos)
    ELSE 0

\* click_piece with the return of its loop left out: every piece under the
\* cursor is set moving
click_piece_no_return(gs, input, c) ==
    IF ~input.just_pressed THEN gs
    ELSE [i \in DOMAIN gs |->
            IF is_even_odd(gs[i], c.current_pos)
            THEN set_moving(gs[i], TRUE) ELSE gs[i]]

\* click_piece; the right button, which rotates, stays up in this model
click_piece(gs, input, c) ==
    IF input.just_pressed /\ clicked_piece(gs, c) # 0
    THEN [gs EXCEPT ![clicked_piece(gs, c)] = set_moving(@, TRUE)]
    ELSE gs

\* move_piece
move_piece(gs, c) ==
    IF c.is_pressed
    THEN [i \in DOMAIN gs |->
            IF is_moving(gs[i]) THEN move_it(gs[i], c) ELSE gs[i]]
    ELSE gs

\* incrust_in_board: game_state.0.iter_mut().find(|piece| piece.is_moving()),
\* as an index of the list, 0 for None
moving_piece(gs) ==
    IF \E i \in DOMAIN gs : is_moving(gs[i])
    THEN CHOOSE i \in DOMAIN gs :
            is_moving(gs[i]) /\ \A j \in 1..(i - 1) : ~is_moving(gs[j])
    ELSE 0

\* incrust_in_board: in_board, with board.min * 0.95 <= t written as
\* 95 * board.min <= 100 * t and t <= board.max * 1.05 likewise
in_board(piece, b) ==
    \A i \in DOMAIN piece.positions :
        LET t == piece.positions[i]
        IN /\ 95 * b.min_x <= 100 * t[1]
           /\ 100 * t[1] <= 105 * b.max_x
           /\ 95 * b.min_y <= 100 * t[2]
           /\ 100 * t[2] <= 105 * b.max_y

\* incrust_in_board: the pieces it calls snap() on (one at most)
incrusted(gs, b, input) ==
    IF ~input.just_released THEN {}
    ELSE IF moving_piece(gs) = 0 THEN {}
    ELSE IF in_board(gs[moving_piece(gs)], b) THEN {moving_piece(gs)}
    ELSE {}

\* incrust_in_board; the Board resource is always there (BoardPlugin)
incrust_in_board(gs, b, input) ==
    [i \in DOMAIN gs |->
        IF i \in incrusted(gs, b, input) THEN snap(gs[i]) ELSE gs[i]]

\* the systems of the Update schedule that take GameState: PiecePlugin adds
\* (release_piece, click_piece, move_piece, draw_piece) without .chain() and
\* GamePlugin adds incrust_in_board, so no order is fixed among them;
\* draw_piece only reads the pieces and is left out
Systems == {"release_piece", "click_piece", "move_piece", "incrust_in_board"}

\* where the player points: the centre of the first square of the
\* Rectangle, a point on the edge shared by its second and third square,
\* a point 40 right of its first centre (off the piece), the centre of the Square, a point
\* over the board off its grid, and a point over nothing
CursorPositions ==
    {<<100, 100>>, <<125, 175>>, <<140, 100>>, <<300, 100>>, <<360, 310>>,
     <<700, 50>>}

\* ButtonInput::clear, called before the events of a frame are read
ButtonInput_clear(input) ==
    [input EXCEPT !.just_pressed = FALSE, !.just_released = FALSE]

\* ButtonInput::press
ButtonInput_press(input) ==
    IF input.pressed THEN input
    ELSE [input EXCEPT !.pressed = TRUE, !.just_pressed = TRUE]

\* ButtonInput::release
ButtonInput_release(input) ==
    IF input.pressed
    THEN [input EXCEPT !.pressed = FALSE, !.just_released = TRUE]
    ELSE input

\* the events of the left button that arrive between two frames: none, one,
\* or a press and a release together in either order
ButtonEvents ==
    {<<>>, <<"press">>, <<"release">>, <<"press", "release">>,
     <<"release", "press">>}

RECURSIVE read_events(_, _)
\* the input system: every event of the frame, in the order it arrived
read_events(input, events) ==
    IF events = <<>> THEN input
    ELSE read_events(IF Head(events) = "press" THEN ButtonInput_press(input)
                     ELSE ButtonInput_release(input), Tail(events))

\* App::new() with GamePlugin: the resources the plugins insert
InitGame ==
    /\ rows = MaxRows
    /\ cols = MaxCols
    /\ rep = 1
    /\ board = BoardState_new(0, 0, 0)
    /\ pieces = <<>>
    /\ piece_types = all_types
    /\ stack = <<>>
    /\ pc = "game"
    /\ ret = FALSE
    /\ result = "Pending"
    /\ steps = <<>>
    /\ runs = <<>>
    /\ outcomes = <<>>
    /\ tboard = BoardState_new(0, 0, 0)
    /\ ri = 1
    /\ last = [op |-> "new"]
    /\ ncalls = 0
    /\ approved = TRUE
    /\ game_state = GameState_new
    /\ mouse_button_input = [pressed |-> FALSE, just_pressed |-> FALSE,
                             just_released |-> FALSE]
    /\ cursor = [current_pos |-> <<0, 0>>, is_pressed |-> FALSE]
    /\ pending = {}
    /\ frame = [n |-> 0, before |-> GameState_new, snapped |-> {}]

\* a frame begins: the input system reads the events of the left button,
\* the cursor follows the mouse, and every system of Update is to run
BeginFrame ==
    /\ pc = "game"
    /\ pending = {}
    /\ frame.n < MaxFrames
    /\ \E events \in ButtonEvents, pos \in CursorPositions :
          /\ mouse_button_input' =
                read_events(ButtonInput_clear(mouse_button_input), events)
          /\ cursor' = [current_pos |-> pos,
                        is_pressed |-> mouse_button_input'.pressed]
    /\ pending' = Systems
    /\ frame' = [n |-> frame.n + 1, before |-> game_state, snapped |-> {}]
    /\ UNCHANGED <<searchVars, testVars, game_state>>

\* the schedule runs release_piece
ReleasePiece ==
    /\ "release_piece" \in pending
    /\ game_state' = release_piece(game_state, mouse_button_input)
    /\ pending' = pending \ {"release_piece"}
    /\ UNCHANGED <<searchVars, testVars, mouse_button_input, cursor, frame>>

\* the schedule runs click_piece
ClickPiece ==
    /\ "click_piece" \in pending
    /\ game_state' = click_piece(game_state, mouse_button_input, cursor)
    /\ pending' = pending \ {"click_piece"}
    /\ UNCHANGED <<searchVars, testVars, mouse_button_input, cursor, frame>>

\* the schedule runs move_piece
MovePiece ==
    /\ "move_piece" \in pending
    /\ game_state' = move_piece(game_state, cursor)
    /\ pending' = pending \ {"move_piece"}
    /\ UNCHANGED <<searchVars, testVars, mouse_button_input, cursor, frame>>

\* the schedule runs incrust_in_board
IncrustInBoard ==
    /\ "incrust_in_board" \in pending
    /\ game_state' = incrust_in_board(game_state, TheBoard, mouse_button_input)
    /\ frame' = [frame EXCEPT !.snapped =
                    @ \cup incrusted(game_state, TheBoard, mouse_button_input)]
    /\ pending' = pending \ {"incrust_in_board"}
    /\ UNCHANGED <<searchVars, testVars, mouse_button_input, cursor>>

NextGame ==
    BeginFrame \/ ReleasePiece \/ ClickPiece \/ MovePiece \/ IncrustInBoard

SpecGame == InitGame /\ [][NextGame]_vars


----------------------------------------------------------------------------
(* Properties of generate_piece_set (checked under Spec and FairSpec)       *)

\* the cells of the rows x cols grid
Grid(r, c) == (0..(r - 1)) \X (0..(c - 1))

\* the set of positions a placement occupies
Cells(piece) == Range(occupied_positions(piece))

\* the number of occupied positions of a sequence of placements, each counted
\* as often as a placement occupies it
RECURSIVE CountPositions(_)
CountPositions(v) ==
    IF v = <<>> THEN 0
    ELSE Len(occupied_positions(Head(v))) + CountPositions(Tail(v))

\* generate_piece_set has returned Some(pieces)
Returned == result = "Some"

\* C1 (coverage): when generate_piece_set(rows, cols) returns Some(pieces) for
\* rows, cols >= 1, the positions the pieces occupy are together exactly the
\* cells of the rows x cols grid, and counted with multiplicity they are
\* rows * cols.
C1_Coverage ==
    (Returned /\ rows >= 1 /\ cols >= 1) =>
        /\ UNION {Cells(pieces[i]) : i \in DOMAIN pieces} = Grid(rows, cols)
        /\ CountPositions(pieces) = rows * cols

C1_Witness == pc = "done" /\ Returned /\ rows >= 2 /\ cols >= 3 /\ Len(pieces) >= 2

\* C2 (disjointness): two distinct placements of a returned sequence occupy
\* no position in common.
C2_Disjoint ==
    Returned =>
        \A i, j \in DOMAIN pieces :
            i # j => Cells(pieces[i]) \cap Cells(pieces[j]) = {}

C2_Witness == pc = "done" /\ Returned /\ Len(pieces) >= 4

\* C3 (bounds): every position of every returned placement lies on the
\* rows x cols grid, whatever offset of its shape was put on the target.
C3_Bounds ==
    Returned =>
        \A i \in DOMAIN pieces : \A pos \in Cells(pieces[i]) :
            0 <= pos[1] /\ pos[1] < rows /\ 0 <= pos[2] /\ pos[2] < cols

C3_Witness == pc = "done" /\ Returned /\ rows # cols /\ Len(pieces) >= 3

\* C4 (replay in order): replayed in the returned order onto a fresh
\* BoardState::new(rows, cols), every piece can be placed when its turn comes,
\* and after the last one the board is complete.
C4_Replay ==
    /\ pc # "panicked"
    /\ (pc = "replay" /\ ri <= Len(pieces)) => can_place_piece(tboard, pieces[ri])
    /\ pc = "replayed" => is_complete(tboard)

C4_Witness == pc = "replayed" /\ Len(pieces) >= 4 /\ is_complete(tboard)

\* a set of cells can be covered exactly by placements of the catalog's
\* shapes without overlap: some placement with all its cells in the set
\* covers the row-major first cell, and the rest can be covered
RECURSIVE Coverable(_)
Coverable(S) ==
    IF S = {} THEN TRUE
    ELSE LET m == CHOOSE pos \in S : \A other \in S \ {pos} : RowMajorLess(pos, other)
         IN \E ti \in 1..Len(all_types) :
               \E oi \in 1..Len(shape_offsets(all_types[ti])) :
                  LET off == shape_offsets(all_types[ti])[oi]
                      covered == {<<m[1] - off[1] + o[1], m[2] - off[2] + o[2]>> :
                                     o \in Range(shape_offsets(all_types[ti]))}
                  IN covered \subseteq S /\ Coverable(S \ covered)

HasCovering(r, c) == Coverable(Grid(r, c))

\* C5 (failure is sound and complete): generate_piece_set(rows, cols) returns
\* None exactly when no set of placements of the catalog's shapes covers the
\* rows x cols grid exactly; when there is one, it returns Some.
C5_NoneIffNoCovering ==
    pc = "done" => (result = "None" <=> ~HasCovering(rows, cols))

C5_Witness == pc = "done" /\ Returned /\ HasCovering(rows, cols) /\ rows >= 3 /\ cols >= 3

\* C6 as stated (None is a reachable outcome): once generate_piece_set has
\* been called with every board size up to the bounds, one of the calls with
\* positive rows and cols has returned None.
C6_NoneReachable ==
    pc = "finished" =>
        \E i \in DOMAIN outcomes :
            outcomes[i].rows >= 1 /\ outcomes[i].cols >= 1 /\ outcomes[i].result = "None"

\* C6 as amended: with the catalog of five shapes, every call of
\* generate_piece_set with positive rows and cols returns Some; None is not a
\* reachable outcome.
C6_AlwaysSome ==
    /\ pc # "expect_failed"
    /\ \A i \in DOMAIN outcomes :
          (outcomes[i].rows >= 1 /\ outcomes[i].cols >= 1) => outcomes[i].result = "Some"

C6_Witness ==
    /\ pc = "finished"
    /\ \A r \in 1..MaxRows : \A c \in 1..MaxCols :
          \E i \in DOMAIN outcomes : outcomes[i].rows = r /\ outcomes[i].cols = c

\* s is an initial part of t
IsPrefix(s, t) == Len(s) <= Len(t) /\ SubSeq(t, 1, Len(s)) = s

\* C7 (determinism): the calls of generate_piece_set with the same arguments
\* go through the same place/remove steps and return the same Option variant
\* with the same placements in the same order.
C7_Deterministic ==
    /\ \A i, j \in DOMAIN runs :
          /\ runs[i].result = runs[j].result
          /\ runs[i].pieces = runs[j].pieces
          /\ runs[i].steps = runs[j].steps
    /\ \A i \in DOMAIN runs :
          (pc \in {"enter", "loop", "return"}) => IsPrefix(steps, runs[i].steps)

C7_Witness ==
    /\ Len(runs) >= 2
    /\ runs[1].hasher # runs[2].hasher
    /\ Len(runs[2].pieces) >= 4

\* every activation of backtrack began with more filled cells than the one
\* that called it, and a recursive call is made with more filled cells than
\* its caller began with
C8_FramesGrow ==
    /\ \A i, j \in DOMAIN stack : i < j => stack[i].entered < stack[j].entered
    /\ (pc = "enter" /\ stack # <<>>) => Top.entered < Cardinality(board.filled)

\* C8 (termination): every call of generate_piece_set returns, and every
\* recursive call of backtrack is made on a board with more filled cells.
C8_Terminates ==
    /\ []C8_FramesGrow
    /\ (pc = "enter" /\ stack = <<>>) ~> (pc = "done")

C8_Witness == pc = "done" /\ rows >= 2 /\ cols >= 2 /\ Len(steps) >= 4

----------------------------------------------------------------------------
(* Properties of BoardState (checked under SpecBoard)                       *)

\* C9 (place/remove round trip): place_piece(p) on a board where
\* can_place_piece(p) holds, followed by remove_piece(p), leaves the filled
\* set as it was before the two calls.
C9_RoundTrip ==
    (last.op = "remove" /\ last.undoes) => tboard.filled = last.before

C9_Witness ==
    /\ last.op = "remove"
    /\ last.undoes
    /\ last.before # {}
    /\ size(last.piece.piece_type) > 1

\* every position of the placement is on the board and is not filled
FreeAndInBounds(b, piece) ==
    \A pos \in Cells(piece) :
        /\ 0 <= pos[1] /\ pos[1] < b.rows
        /\ 0 <= pos[2] /\ pos[2] < b.cols
        /\ pos \notin b.filled

\* the orders in which n positions can be examined, for the sizes the
\* shapes of the catalog have
Orders ==
    [n \in {size(t) : t \in Range(all_types)} |->
        {f \in [1..n -> 1..n] : \A a, b \in 1..n : a # b => f[a] # f[b]}]

\* C10 (can_place_piece): the call answers true exactly when every position
\* of the placement is within bounds and not filled, whatever the order the
\* positions are examined in, and it leaves the board as it was.
C10_CanPlace ==
    last.op = "can_place" =>
        /\ last.answer = FreeAndInBounds(tboard, last.piece)
        /\ \A f \in Orders[Len(occupied_positions(last.piece))] :
              can_place_positions(tboard,
                  [i \in DOMAIN f |-> occupied_positions(last.piece)[f[i]]]) = last.answer
        /\ tboard.filled = last.before

\* a Z anchored in the last column of the first row of a board with three
\* rows, all its cells empty, is rejected: it reaches two columns too far
C10_Witness ==
    /\ last.op = "can_place"
    /\ last.piece = PlacedPiece("Z", 0, tboard.cols - 1)
    /\ tboard.rows = 3
    /\ tboard.filled # {}
    /\ Cells(last.piece) \cap tboard.filled = {}
    /\ ~last.answer

----------------------------------------------------------------------------
(* BoardState: the queries first_empty_position, is_complete, empty_count   *)

\* the cells of the grid of board b that are not filled
EmptyCells(b) == Grid(b.rows, b.cols) \ b.filled

\* answer is Some of the least position of S in row-major order
IsRowMajorMin(answer, S) ==
    /\ answer[1] = "Some"
    /\ answer[2] \in S
    /\ \A other \in S \ {answer[2]} : RowMajorLess(answer[2], other)

\* the first half of C11: the answer is the row-major minimum of the empty
\* cells of the grid, and None when the grid has no empty cell
FirstEmptyIsMin(b) ==
    IF EmptyCells(b) = {}
    THEN first_empty_position(b) = <<"None">>
    ELSE IsRowMajorMin(first_empty_position(b), EmptyCells(b))

\* C11 as stated (first_empty_position): on the board a test holds, the
\* answer is the row-major minimum empty cell of the grid, and it is None
\* exactly when is_complete() is true.
C11_NoneIffComplete ==
    /\ FirstEmptyIsMin(tboard)
    /\ (first_empty_position(tboard) = <<"None">>) <=> is_complete(tboard)

\* C11 as amended (first_empty_position): the answer is the row-major
\* minimum empty cell of the grid and None exactly when the grid has no empty
\* cell; None coincides with is_complete() on every board whose filled cells
\* all lie in the grid.
C11_FirstEmpty ==
    /\ FirstEmptyIsMin(tboard)
    /\ tboard.filled \subseteq Grid(tboard.rows, tboard.cols) =>
          ((first_empty_position(tboard) = <<"None">>) <=> is_complete(tboard))

\* a board with all its filled cells in the grid and a filled cell after
\* the first empty one
C11_Witness ==
    /\ tboard.filled \subseteq Grid(tboard.rows, tboard.cols)
    /\ first_empty_position(tboard)[1] = "Some"
    /\ \E pos \in tboard.filled :
          /\ RowMajorLess(first_empty_position(tboard)[2], pos)
          /\ pos[2] < first_empty_position(tboard)[2][2]

\* C12 as stated (empty_count, is_complete): after any sequence of
\* place_piece and remove_piece calls, empty_count() is rows*cols minus the
\* number of filled cells, without underflow, and is_complete() is true
\* exactly when every cell of the grid is filled.
C12_AnySequence ==
    last.op = "query" =>
        /\ last.empty_count =
              [kind |-> "value",
               n |-> (tboard.rows * tboard.cols) - Cardinality(tboard.filled)]
        /\ last.is_complete <=> (EmptyCells(tboard) = {})

\* C12 as amended (empty_count, is_complete): the same, after any sequence
\* of remove_piece calls and of place_piece calls that can_place_piece
\* approved; empty_count() is then also the number of empty cells of the grid.
C12_Counts ==
    (last.op = "query" /\ approved) =>
        /\ last.empty_count =
              [kind |-> "value",
               n |-> (tboard.rows * tboard.cols) - Cardinality(tboard.filled)]
        /\ last.empty_count.n = Cardinality(EmptyCells(tboard))
        /\ last.is_complete <=> (EmptyCells(tboard) = {})

\* the queries after an approved place_piece and the remove_piece of a piece
\* of several cells, on a board that is neither empty nor complete
C12_Witness ==
    /\ last.op = "query"
    /\ approved
    /\ ncalls = 2
    /\ tboard.filled # {}
    /\ last.empty_count.kind = "value"
    /\ last.empty_count.n > 0
    /\ ~last.is_complete

\* C13 as stated (filled within the grid): in every state a board reaches
\* through place_piece and remove_piece, every filled cell is a cell of the
\* rows x cols grid.
C13_AlwaysInGrid == tboard.filled \subseteq Grid(tboard.rows, tboard.cols)

\* C13 as amended (filled within the grid): the same, in every state a board
\* reaches through remove_piece calls and through place_piece calls that
\* can_place_piece approved.
C13_ApprovedInGrid ==
    approved => tboard.filled \subseteq Grid(tboard.rows, tboard.cols)

\* an approved place_piece of a piece of several cells that reaches the last
\* row or the last column of a board partly filled before
C13_Witness ==
    /\ approved
    /\ last.op = "place"
    /\ last.before # {}
    /\ size(last.piece.piece_type) > 1
    /\ \E pos \in Cells(last.piece) :
          pos[1] = tboard.rows - 1 \/ pos[2] = tboard.cols - 1

----------------------------------------------------------------------------
(* PieceType and PlacedPiece: the catalog and the two transforms            *)

\* the offsets of a vector are pairwise distinct
PairwiseDistinct(v) == \A i, j \in DOMAIN v : i # j => v[i] # v[j]

\* C14 (shape catalog): all_types() is Square, Rectangle, L, Z, Corner in
\* that order; shape_offsets() gives each of them the offsets listed; the
\* offsets of a shape are pairwise distinct; size() is the number of offsets,
\* 1, 3, 4, 4 and 3.
C14_Catalog ==
    /\ all_types = <<"Square", "Rectangle", "L", "Z", "Corner">>
    /\ shape_offsets("Square") = << <<0, 0>> >>
    /\ shape_offsets("Rectangle") = << <<0, 0>>, <<1, 0>>, <<2, 0>> >>
    /\ shape_offsets("L") = << <<0, 0>>, <<1, 0>>, <<2, 0>>, <<2, 1>> >>
    /\ shape_offsets("Z") = << <<0, 0>>, <<0, 1>>, <<1, 1>>, <<1, 2>> >>
    /\ shape_offsets("Corner") = << <<0, 0>>, <<1, 0>>, <<1, 1>> >>
    /\ \A i \in DOMAIN all_types :
          /\ PairwiseDistinct(shape_offsets(all_types[i]))
          /\ size(all_types[i]) = Len(shape_offsets(all_types[i]))
          /\ size(all_types[i]) = <<1, 3, 4, 4, 3>>[i]
    /\ last.op = "place" =>
          /\ last.piece.piece_type \in Range(all_types)
          /\ last.ok => Cardinality(tboard.filled \ last.before)
                           = size(last.piece.piece_type)

\* a Z, the one shape with an offset in a third column, placed on four
\* empty cells of a board
C14_Witness ==
    /\ last.op = "place"
    /\ last.ok
    /\ last.piece.piece_type = "Z"
    /\ Cardinality(tboard.filled \ last.before) = 4

\* C15 (occupied_positions): the positions of a placement are exactly its
\* anchor plus each offset of its shape, there are as many of them as the
\* shape has cells, and the board is as it was before the call.
C15_Occupied ==
    last.op = "occupied" =>
        /\ Range(last.positions) =
              {<<last.piece.grid_row + off[1], last.piece.grid_col + off[2]>> :
                  off \in Range(shape_offsets(last.piece.piece_type))}
        /\ Len(last.positions) = size(last.piece.piece_type)
        /\ Cardinality(Range(last.positions)) = size(last.piece.piece_type)
        /\ tboard.filled = last.before

\* the positions of an L anchored one column left of the board: (0,-1),
\* (1,-1), (2,-1), (2,0)
C15_Witness ==
    /\ last.op = "occupied"
    /\ last.piece = PlacedPiece("L", 0, -1)
    /\ <<2, 0>> \in Range(last.positions)

\* the pixel of the cell (row, col) of a grid that starts at (origin_x,
\* origin_y) and has cells of cell_size pixels
CellPixel(pos, origin_x, origin_y, cell_size) ==
    <<origin_x + (pos[2] * cell_size), origin_y + (pos[1] * cell_size)>>

\* C16 as stated (render position): the transform of a placement yields one
\* coordinate per occupied cell of the placement, the pixel of that cell.
C16_OnePerCell ==
    last.op = "pixel" =>
        LET coordinates == <<last.pixel>>
            positions == occupied_positions(last.piece)
        IN /\ Len(coordinates) = Len(positions)
           /\ \A i \in DOMAIN positions :
                 coordinates[i] = CellPixel(positions[i], last.board_start_x,
                                            last.board_start_y, SQUARE_WIDTH)

\* C16 as amended (render position): the transform of a placement yields
\* one coordinate, the pixel of the anchor cell of the placement, which is
\* the first of its occupied cells, with cells of SQUARE_WIDTH pixels; the
\* other occupied cells get no coordinate.
C16_AnchorOnly ==
    last.op = "pixel" =>
        LET coordinates == <<last.pixel>>
            positions == occupied_positions(last.piece)
        IN /\ Len(coordinates) = 1
           /\ positions[1] = <<last.piece.grid_row, last.piece.grid_col>>
           /\ coordinates[1] = CellPixel(positions[1], last.board_start_x,
                                          last.board_start_y, SQUARE_WIDTH)
           /\ \A i \in 2..Len(positions) :
                 coordinates[1] # CellPixel(positions[i], last.board_start_x,
                                            last.board_start_y, SQUARE_WIDTH)

\* the pixel of a Z, a shape of four cells, anchored at a row and a column
\* that differ, for the board start of the tests
C16_Witness ==
    /\ last.op = "pixel"
    /\ last.piece = PlacedPiece("Z", 1, 2)
    /\ last.board_start_x = 300
    /\ last.board_start_y = 250
    /\ last.pixel = <<400, 300>>

\* C17 (to_pixel_position): the result is (board_start_x + grid_col * 50,
\* board_start_y + grid_row * 50): the column drives x, the row drives y,
\* and every piece type anchored at the same cell gets the same pixel.
C17_Pixel ==
    last.op = "pixel" =>
        /\ SQUARE_WIDTH = 50
        /\ last.pixel[1] = last.board_start_x + (last.piece.grid_col * 50)
        /\ last.pixel[2] = last.board_start_y + (last.piece.grid_row * 50)
        /\ \A piece_type \in Range(all_types) :
              to_pixel_position(
                  PlacedPiece(piece_type, last.piece.grid_row,
                              last.piece.grid_col),
                  last.board_start_x, last.board_start_y) = last.pixel

\* as in the second case of test_to_pixel_position: a Square anchored past
\* the first row and the first column, in a row and a column that differ,
\* for the board start (300, 250)
C17_Witness ==
    /\ last.op = "pixel"
    /\ last.piece.piece_type = "Square"
    /\ last.piece.grid_row # last.piece.grid_col
    /\ last.piece.grid_row > 0
    /\ last.piece.grid_col > 0
    /\ last.board_start_x = 300
    /\ last.board_start_y = 250
    /\ last.pixel = <<300 + (last.piece.grid_col * 50),
                      250 + (last.piece.grid_row * 50)>>

----------------------------------------------------------------------------
(* generate_piece_set and backtrack: what is returned, and the board and    *)
(* the vector during the search                                             *)

\* the cells of row i of a grid with c columns
RowCells(i, c) == {i} \X (0..(c - 1))

Disjoint(v) ==
    \A i, j \in DOMAIN v : i # j => Cells(v[i]) \cap Cells(v[j]) = {}

\* C19 (board and vector in step): at every point of the search the filled
\* set of the board is the union of the positions of the placements in
\* pieces, these placements are pairwise disjoint, and the number of filled
\* cells is the sum of their sizes.
C19_InStep ==
    /\ board.filled = UNION {Cells(pieces[i]) : i \in DOMAIN pieces}
    /\ Disjoint(pieces)
    /\ Cardinality(board.filled) = CountPositions(pieces)

\* the search has just placed a piece, after it had placed and removed
\* another one of several cells
C19_Witness ==
    /\ pc = "enter"
    /\ pieces # <<>>
    /\ steps[Len(steps)][1] = "place"
    /\ \E i \in DOMAIN steps :
          steps[i][1] = "remove" /\ size(steps[i][2].piece_type) > 1

\* the place and remove steps of s are matched like brackets: each remove
\* takes the placement of the last place not yet removed, and none is left
\* (open is the vector of the placements placed and not yet removed)
RECURSIVE Matched(_, _)
Matched(s, open) ==
    IF s = <<>> THEN open = <<>>
    ELSE IF Head(s)[1] = "place"
    THEN Matched(Tail(s), Append(open, Head(s)[2]))
    ELSE /\ open # <<>>
         /\ open[Len(open)] = Head(s)[2]
         /\ Matched(Tail(s), SubSeq(open, 1, Len(open) - 1))

\* C20 (exact undo on failure): a step in which a call of backtrack returns
\* false leaves the filled set and the vector as they were when the call
\* was entered, and the place and remove steps taken since then are matched.
C20_ExactUndo ==
    [][(pc = "loop" /\ pc' = "return" /\ ~ret') =>
          /\ board'.filled = Top.filled_in
          /\ pieces' = Top.pieces_in
          /\ Matched(SubSeq(steps', Top.steps_in + 1, Len(steps')), <<>>)]_vars

\* a call of backtrack made with a placement on the board has returned false
\* after it placed and removed placements of its own
C20_Witness ==
    /\ pc = "return"
    /\ ~ret
    /\ stack # <<>>
    /\ pieces # <<>>
    /\ steps[Len(steps)][1] = "remove"

\* piece covers the first cell, in row-major order, of the grid of board b
\* that is not in filled
CoversFirstGap(piece, filled, b) ==
    \E pos \in Cells(piece) :
        /\ pos \in Grid(b.rows, b.cols) \ filled
        /\ \A other \in Grid(b.rows, b.cols) \ filled :
              other = pos \/ RowMajorLess(pos, other)

\* the cells the placements before the i-th of vector v occupy
FilledBefore(v, i) == UNION {Cells(v[k]) : k \in 1..(i - 1)}

\* C21 (first-gap discipline): every placement the search places covers the
\* row-major first empty cell of the board as it was just before, and at
\* every time, so also in what is returned, the i-th placement of pieces
\* covers the first cell the placements before it leave empty.
C21_FirstGap ==
    /\ [][(pc = "loop" /\ pc' = "enter") =>
             /\ pieces' = Append(pieces, frame_piece(Top))
             /\ CoversFirstGap(frame_piece(Top), board.filled, board)]_vars
    /\ [](\A i \in DOMAIN pieces :
             CoversFirstGap(pieces[i], FilledBefore(pieces, i), board))

\* a call has returned three or more placements, all of several cells
C21_Witness ==
    /\ pc = "done"
    /\ result = "Some"
    /\ Len(pieces) >= 3
    /\ \A i \in DOMAIN pieces : size(pieces[i].piece_type) > 1

\* C22 (first-found propagation): once every cell of the board is filled
\* during the search, no step places, removes, pushes or pops any more; the
\* activations of backtrack only end, each returning true, none moves on in
\* its loops; and generate_piece_set returns Some with pieces as it was.
C22_FirstFound ==
    [][(EmptyCells(board) = {} /\ pc \in {"enter", "loop", "return"}) =>
          /\ board' = board
          /\ pieces' = pieces
          /\ steps' = steps
          /\ IsPrefix(stack', stack)
          /\ pc' \in {"return", "done"}
          /\ pc' = "return" => ret'
          /\ pc' = "done" => result' = "Some"]_vars

\* the board is complete and true is on its way up through several
\* activations of backtrack
C22_Witness ==
    /\ pc = "return"
    /\ ret
    /\ Len(stack) >= 2
    /\ EmptyCells(board) = {}
    /\ \E i \in DOMAIN pieces : size(pieces[i].piece_type) > 1

\* C23 (all Squares): for rows, cols >= 1 generate_piece_set returns
\* rows * cols placements of type Square anchored at the cells of the grid in
\* row-major order; no other piece type is ever placed, and the search never
\* executes remove_piece.
C23_AllSquares ==
    /\ \A i \in DOMAIN steps :
          steps[i][1] = "place" /\ steps[i][2].piece_type = "Square"
    /\ (result # "Pending" /\ rows >= 1 /\ cols >= 1) =>
          /\ result = "Some"
          /\ pieces = [k \in 1..(rows * cols) |->
                         PlacedPiece("Square", (k - 1) \div cols, (k - 1) % cols)]
          /\ steps = [k \in 1..(rows * cols) |-> <<"place", pieces[k]>>]

\* a call for a board on which every other shape of the catalog fits as
\* well has returned
C23_Witness ==
    /\ pc = "done"
    /\ result = "Some"
    /\ rows >= 3
    /\ cols >= 3
    /\ Len(steps) = rows * cols

----------------------------------------------------------------------------
(* The pieces of the game *)

\* C24 (grid/pixel consistency of instantiate): the squares of the piece
\* that instantiate builds are exactly at the pixels of the occupied
\* positions of the placement, x from the column and y from the row.
C24_Instantiate ==
    last.op = "instantiate" =>
        {<<position[1], position[2]>> : position \in Range(last.positions)}
            = {CellPixel(pos, last.board_start_x, last.board_start_y,
                         SQUARE_WIDTH) : pos \in Cells(last.piece)}

\* how far apart two coordinates are
Apart(a, b) == IF a >= b THEN a - b ELSE b - a

\* the cursor is over a square of the piece: within half a SQUARE_WIDTH of
\* the square's centre on both axes
UnderCursor(piece, pos) ==
    \E square \in Range(piece.positions) :
        /\ 2 * Apart(pos[1], square[1]) <= SQUARE_WIDTH
        /\ 2 * Apart(pos[2], square[2]) <= SQUARE_WIDTH

\* the step of a frame in which the schedule runs the named system
Runs(system) == system \in pending /\ system \notin pending'

\* C28: when click_piece runs in a frame whose left button was just pressed,
\* the first piece of the list under the cursor, and only that one, has its
\* moving flag set; every other piece keeps its flag and its positions, the
\* clicked piece keeps its positions, and when no piece is under the cursor
\* GameState stays as it is.
C28_LeftClick ==
    [][(Runs("click_piece") /\ mouse_button_input.just_pressed) =>
        IF \E i \in DOMAIN game_state :
                UnderCursor(game_state[i], cursor.current_pos)
        THEN \E k \in DOMAIN game_state :
                /\ UnderCursor(game_state[k], cursor.current_pos)
                /\ \A j \in 1..(k - 1) :
                        ~UnderCursor(game_state[j], cursor.current_pos)
                /\ game_state'[k].moving
                /\ game_state'[k].positions = game_state[k].positions
                /\ \A i \in DOMAIN game_state :
                        i # k => game_state'[i] = game_state[i]
                /\ DOMAIN game_state' = DOMAIN game_state
        ELSE game_state' = game_state]_vars

\* click_piece has run on a left press with two pieces under the cursor:
\* the earlier one of the list is moving and the later one is not
C28_Witness ==
    /\ "click_piece" \notin pending
    /\ pending # {}
    /\ mouse_button_input.just_pressed
    /\ \E i, j \in DOMAIN game_state :
          /\ i < j
          /\ UnderCursor(game_state[i], cursor.current_pos)
          /\ UnderCursor(game_state[j], cursor.current_pos)
          /\ game_state[i].moving
          /\ ~frame.before[i].moving
          /\ ~game_state[j].moving

\* every system of the frame has run
FrameEnded == pc = "game" /\ frame.n >= 1 /\ pending = {}

\* the pieces of a GameState whose moving flag is set
Moving(gs) == {i \in DOMAIN gs : gs[i].moving}

\* C27: at the end of a frame in which the left button was just released no
\* piece has its moving flag set.
C27_ReleaseEndsDrag ==
    (FrameEnded /\ mouse_button_input.just_released) => Moving(game_state) = {}

\* C26: at most one piece of GameState has its moving flag set, in every
\* state the systems leave, whatever the events of the left button and the
\* order of the systems.
C26_OneMoving == Cardinality(Moving(game_state)) <= 1

\* every square of the piece lies in the rectangle of the Board widened
\* by the 5% incrust_in_board accepts: from 0.95 of the minimum to 1.05 of
\* the maximum on both axes (in hundredths, to stay in the integers)
InTolerance(piece, b) ==
    \A square \in Range(piece.positions) :
        /\ 95 * b.min_x <= 100 * square[1]
        /\ 100 * square[1] <= 105 * b.max_x
        /\ 95 * b.min_y <= 100 * square[2]
        /\ 100 * square[2] <= 105 * b.max_y

\* C25: when the frame in which the left button was just released (and not
\* pressed again) began with one piece moving and all its squares within
\* the tolerance of the board, snap() has been called on that piece by the
\* end of the frame, whatever the order of the systems.
C25_SnapOnDrop ==
    (/\ FrameEnded
     /\ mouse_button_input.just_released
     /\ ~mouse_button_input.just_pressed) =>
        \A k \in DOMAIN frame.before :
            (Moving(frame.before) = {k} /\ InTolerance(frame.before[k], TheBoard))
                => k \in frame.snapped

====
